---- MODULE Spec2Model ----
(***************************************************************************)
(* A model of git-meta's stitcher: node/lib/stitch.js (the run) and        *)
(* node/lib/util/stitch_util.js (ordering, listing, fetching, writing).    *)
(*                                                                         *)
(* Ids.  A meta-repo sha is a three-digit number (101, 102, ...) read as   *)
(* its three-character decimal string, so that "a < b" on strings is "<"   *)
(* on numbers and splitSha can cut it after its second character.  A       *)
(* submodule commit sha is a number 201, 202, ...                          *)
(***************************************************************************)
EXTENDS Integers, Sequences, FiniteSets, TLC

VARIABLES
    parentsOf,       \* the meta-repo history: sha -> sequence of parent shas
    subsOf,          \* sha -> (submodule name -> sha of its commit, 0 if none)
    remote,          \* the submodule shas the origin can serve
    detach,          \* the --discard option
    converted,       \* refs/stitched/converted/*: ref name -> stitched commit
    fetched,         \* refs/stitched/fetched/*:   ref name -> submodule sha
    branches,        \* refs/heads/*:              branch name -> commit
    subObjects,      \* submodule commit objects present in the repo
    trees,           \* stitched tree objects written
    commits,         \* stitched commit objects written
    run,             \* the stitch process: its position and its locals
    order,           \* one call of listCommitsInOrder (specification SpecOrder)
    merge,           \* one call of TreeUtil.writeTree (specification SpecTree)
    naming           \* one call of the ref-name functions (specification SpecNames)

repo == <<converted, fetched, branches, subObjects, trees, commits>>
world == <<parentsOf, subsOf, remote, detach>>
calls == <<order, merge, naming>>
vars == <<world, repo, run, calls>>

(***************************************************************************)
(* Small helpers.                                                          *)
(***************************************************************************)
Last(s) == s[Len(s)]
Front(s) == SubSeq(s, 1, Len(s) - 1)
Reverse(s) == [k \in 1..Len(s) |-> s[Len(s) + 1 - k]]
Range(s) == {s[k] : k \in DOMAIN s}
Put(f, k, v) == [x \in DOMAIN f \cup {k} |-> IF x = k THEN v ELSE f[x]]
Max(a, b) == IF a >= b THEN a ELSE b

\* `null` and `undefined` of the source.
Null == [null |-> TRUE]
Undefined == [undefined |-> TRUE]

(***************************************************************************)
(* Ref names (stitch_util.js 54-83).  A three-character sha is cut after   *)
(* its second character: <<first two characters, the rest>>.               *)
(***************************************************************************)
splitSha(sha) == <<sha \div 10, sha % 10>>

convertedRefName(sha) == <<"refs/stitched/converted">> \o splitSha(sha)

fetchedSubRefName(metaSha, subSha) ==
    <<"refs/stitched/fetched">> \o splitSha(metaSha) \o <<"sub">> \o splitSha(subSha)

\* Reference.lookup of the converted ref; null when the lookup throws.
getConvertedSha(conv, sha) ==
    IF convertedRefName(sha) \in DOMAIN conv
        THEN conv[convertedRefName(sha)]
        ELSE Null

(***************************************************************************)
(* listCommitsInOrder (stitch_util.js 120-179).                            *)
(***************************************************************************)
\* `undefined` as the value of `level` / `levels[parent]`.
UndefinedLevel == -1

LevelOf(levels, sha) == IF sha \in DOMAIN levels THEN levels[sha] ELSE UndefinedLevel

\* The for loop that takes the largest level of the parents as it is.
RECURSIVE ScanParentsWithoutStep(_, _, _, _, _)
ScanParentsWithoutStep(parents, k, level, queue, levels) ==
    IF k > Len(parents) THEN [level |-> level, queue |-> queue]
    ELSE LET parentLevel == LevelOf(levels, parents[k]) IN
         IF parentLevel = UndefinedLevel
             THEN ScanParentsWithoutStep(parents, k + 1, UndefinedLevel,
                                         Append(queue, parents[k]), levels)
         ELSE IF level # UndefinedLevel
             THEN ScanParentsWithoutStep(parents, k + 1, Max(level, parentLevel),
                                         queue, levels)
         ELSE ScanParentsWithoutStep(parents, k + 1, level, queue, levels)

\* The for loop over `parents` (lines 143-156), from index k on.
RECURSIVE ScanParents(_, _, _, _, _)
ScanParents(parents, k, level, queue, levels) ==
    IF k > Len(parents) THEN [level |-> level, queue |-> queue]
    ELSE LET parentLevel == LevelOf(levels, parents[k]) IN
         IF parentLevel = UndefinedLevel
             THEN ScanParents(parents, k + 1, UndefinedLevel,
                              Append(queue, parents[k]), levels)
         ELSE IF level # UndefinedLevel
             THEN ScanParents(parents, k + 1, Max(level, parentLevel + 1),
                              queue, levels)
         ELSE ScanParents(parents, k + 1, level, queue, levels)

\* One iteration of the while loop (lines 131-163); queue is not empty.
LevelStep(levels, queue, parentMap) ==
    LET next == Last(queue) IN
    IF next \in DOMAIN levels
        THEN [levels |-> levels, queue |-> Front(queue)]
    ELSE LET parents == IF next \in DOMAIN parentMap THEN parentMap[next] ELSE <<>>
             scan == ScanParents(parents, 1, 0, queue, levels)
         IN  IF scan.level # UndefinedLevel
                 THEN [levels |-> Put(levels, next, scan.level),
                       queue |-> Front(scan.queue)]
                 ELSE [levels |-> levels, queue |-> scan.queue]

\* The while loop (lines 131-163) run to its end; each iteration works on
\* the values the one before has left.
RECURSIVE ComputeLevels(_, _, _)
ComputeLevels(levels, queue, parentMap) ==
    IF queue = <<>> THEN levels
    ELSE CHOOSE result \in
             {ComputeLevels(s.levels, s.queue, parentMap) :
                 s \in {LevelStep(levels, queue, parentMap)}} : TRUE

\* compareCommits ignoring the levels: ids only.
compareCommitsById(levels, a, b) == IF a < b THEN -1 ELSE 1

compareCommits(levels, a, b) ==
    LET aLevel == levels[a]
        bLevel == levels[b]
    IN  IF aLevel # bLevel THEN aLevel - bLevel
        ELSE IF a < b THEN -1
        ELSE 1

\* Object.keys(parentMap): the keys in some order (here ascending).
RECURSIVE KeysOf(_)
KeysOf(S) ==
    IF S = {} THEN <<>>
    ELSE LET m == CHOOSE x \in S : \A y \in S : x <= y
         IN  <<m>> \o KeysOf(S \ {m})

\* Array.prototype.sort with a consistent comparator, as an insertion sort.
RECURSIVE InsertSorted(_, _, _)
InsertSorted(sorted, x, levels) ==
    IF sorted = <<>> THEN <<x>>
    ELSE IF compareCommits(levels, x, sorted[1]) < 0 THEN <<x>> \o sorted
    ELSE <<sorted[1]>> \o InsertSorted(Tail(sorted), x, levels)

RECURSIVE SortCommits(_, _)
SortCommits(keys, levels) ==
    IF keys = <<>> THEN <<>>
    ELSE InsertSorted(SortCommits(Tail(keys), levels), keys[1], levels)

listCommitsInOrder(entry, parentMap) ==
    SortCommits(KeysOf(DOMAIN parentMap),
                ComputeLevels(<<>>, <<entry>>, parentMap))

(***************************************************************************)
(* listCommitsToStitch (stitch_util.js 189-228).  `par` is the history     *)
(* (getParents), `conv` the converted refs.                                *)
(***************************************************************************)
\* getParents that follows the first parent only.
getFirstParentOnly(par, sha) == IF par[sha] = <<>> THEN <<>> ELSE <<par[sha][1]>>

\* commit.getParents(): the shas of the direct parents, in order.
getParents(par, sha) == par[sha]

\* The walk without the test for a conversion marker (lines 210-213).
RECURSIVE WalkIgnoringMarkers(_, _, _, _)
WalkIgnoringMarkers(toList, allParents, par, conv) ==
    IF toList = <<>> THEN allParents
    ELSE LET nextSha == Last(toList)
             rest == Front(toList)
         IN  IF nextSha \in DOMAIN allParents
                 THEN WalkIgnoringMarkers(rest, allParents, par, conv)
             ELSE WalkIgnoringMarkers(rest \o getParents(par, nextSha),
                                      Put(allParents, nextSha, getParents(par, nextSha)),
                                      par, conv)

\* The while loop (lines 197-224): the map `allParents` it builds.
RECURSIVE WalkUnconverted(_, _, _, _)
WalkUnconverted(toList, allParents, par, conv) ==
    IF toList = <<>> THEN allParents
    ELSE LET nextSha == Last(toList)
             rest == Front(toList)
         IN  IF nextSha \in DOMAIN allParents
                 THEN WalkUnconverted(rest, allParents, par, conv)
             ELSE IF getConvertedSha(conv, nextSha) # Null
                 THEN WalkUnconverted(rest, allParents, par, conv)
             ELSE WalkUnconverted(rest \o getParents(par, nextSha),
                                  Put(allParents, nextSha, getParents(par, nextSha)),
                                  par, conv)

allParentsOf(commit, par, conv) == WalkUnconverted(<<commit>>, <<>>, par, conv)

listCommitsToStitch(commit, par, conv) ==
    CHOOSE result \in
        {listCommitsInOrder(commit, allParents) :
            allParents \in {allParentsOf(commit, par, conv)}} : TRUE

(***************************************************************************)
(* Submodules.  A commit's submodule table maps each name to the sha of    *)
(* the submodule commit it points at, 0 when the commit has no such        *)
(* submodule.  Names are visited in the order of NameOrder.                *)
(***************************************************************************)
NameOrder == <<"s", "t", "u">>
Names == Range(NameOrder)
NoSub == 0

\* The exclusion predicate of the run (stitch.js 194-199), here the one of
\* the test case "excluded": (name) => "t" === name.
exclude(name) == name = "t"

\* The url a submodule is first configured with, and the url commit
\* `commit` configures for it: commit 113 moves the excluded t to "/c".
UrlOf(name) == IF name = "t" THEN "/b" ELSE "/a"

UrlAt(commit, name) ==
    IF commit = 113 /\ name = "t" THEN "/c" ELSE UrlOf(name)

\* SubmoduleConfigUtil.getSubmodulesFromCommit: name -> url of the
\* submodules of a commit.
getSubmodulesFromCommit(subs, commit) ==
    [name \in {n \in Names : subs[commit][n] # NoSub} |-> UrlAt(commit, name)]

\* SubmoduleUtil.getSubmoduleChanges: the commit's table against the table
\* of its first parent (the empty table for a root commit); a submodule in
\* both is changed when its commit or its url differs.
getSubmoduleChanges(par, subs, commit) ==
    LET new == subs[commit]
        old == IF par[commit] = <<>>
                   THEN [n \in Names |-> NoSub]
                   ELSE subs[par[commit][1]]
        urlDiffers(n) == /\ par[commit] # <<>>
                         /\ UrlAt(par[commit][1], n) # UrlAt(commit, n)
    IN  [added   |-> [n \in {m \in Names : old[m] = NoSub /\ new[m] # NoSub}
                         |-> new[n]],
         changed |-> [n \in {m \in Names : /\ old[m] # NoSub
                                           /\ new[m] # NoSub
                                           /\ (old[m] # new[m] \/ urlDiffers(m))}
                         |-> [old |-> old[n], new |-> new[n]]],
         removed |-> {m \in Names : old[m] # NoSub /\ new[m] = NoSub}]

\* `for (let name in obj)`: the keys of obj, in order.
NamesIn(keys) == SelectSeq(NameOrder, LAMBDA n : n \in keys)

(***************************************************************************)
(* listFetches (stitch_util.js 298-376).                                   *)
(***************************************************************************)
addTodo(result, commit, subName, sha) ==
    LET subTodos == IF subName \in DOMAIN result THEN result[subName] ELSE <<>>
    IN  Put(result, subName,
            Append(subTodos, [metaSha |-> commit, url |-> UrlOf(subName), sha |-> sha]))

\* The loops over `added` and over `changed` of one commit (lines 359-373):
\* shaOf gives the sha to fetch for each name of `names`.
RECURSIVE AddTodos(_, _, _, _)
AddTodos(result, commit, names, shaOf) ==
    IF names = <<>> THEN result
    ELSE AddTodos(IF ~exclude(names[1])
                      THEN addTodo(result, commit, names[1], shaOf[names[1]])
                      ELSE result,
                  commit, Tail(names), shaOf)

\* The loop over the reversed `toFetch` (lines 352-374).
RECURSIVE ListFetchesFrom(_, _, _, _)
ListFetchesFrom(result, toFetch, par, subs) ==
    IF toFetch = <<>> THEN result
    ELSE LET commit == toFetch[1]
             changes == getSubmoduleChanges(par, subs, commit)
             withAdded == AddTodos(result, commit,
                                   NamesIn(DOMAIN changes.added), changes.added)
             withChanged == AddTodos(withAdded, commit,
                                     NamesIn(DOMAIN changes.changed),
                                     [n \in DOMAIN changes.changed
                                         |-> changes.changed[n].new])
         IN  ListFetchesFrom(withChanged, Tail(toFetch), par, subs)

\* listFetches that visits the commits in the order of the list.
listFetchesInListOrder(toFetch, par, subs) ==
    ListFetchesFrom(<<>>, toFetch, par, subs)

listFetches(toFetch, par, subs) ==
    ListFetchesFrom(<<>>, Reverse(toFetch), par, subs)

(***************************************************************************)
(* TreeUtil (tree_util.js 51-221).  A path is the sequence of its          *)
(* components (path.split("/")).  A tree is a function from entry names to *)
(* [id, mode]; the id of a tree is its content, so that getTree(id) is id. *)
(***************************************************************************)
Change(id, mode) == [id |-> id, mode |-> mode]
EmptyTree == <<>>
modulesFileName == ".gitmodules"

\* `entry instanceof Change`, for an entry that is a Change, null or a
\* nested directory.
IsChange(entry) == "mode" \in DOMAIN entry

\* buildDirectoryTree (lines 51-96): the nested map of the flat map from
\* paths to changes.  A removal at a path that other paths continue gives
\* way to the directory.
RECURSIVE buildDirectoryTree(_)
buildDirectoryTree(flatTree) ==
    LET below(h) == {p \in DOMAIN flatTree : Len(p) > 1 /\ p[1] = h}
    IN  [h \in {p[1] : p \in DOMAIN flatTree} |->
            IF below(h) = {} THEN flatTree[<<h>>]
            ELSE buildDirectoryTree([q \in {Tail(p) : p \in below(h)} |->
                                        flatTree[<<h>> \o q]])]

\* writeSubtree that inserts a directory it has left without entries.
RECURSIVE writeSubtreeKeepingEmpty(_, _)
writeSubtreeKeepingEmpty(parentTree, subDir) ==
    LET base == IF parentTree = Null THEN EmptyTree ELSE parentTree
        subtreeParent(f) == IF f \in DOMAIN base /\ base[f].mode = "TREE"
                                THEN base[f].id
                                ELSE Null
        subtree(f) == writeSubtreeKeepingEmpty(subtreeParent(f), subDir[f])
        removed == {f \in DOMAIN subDir : subDir[f] = Null}
        inserted == DOMAIN subDir \ removed
    IN  [f \in (DOMAIN base \ removed) \cup inserted |->
            IF f \notin inserted THEN base[f]
            ELSE IF IsChange(subDir[f]) THEN subDir[f]
            ELSE Change(subtree(f), "TREE")]

\* writeSubtree whose builder starts from no entries below the root.
RECURSIVE writeSubtreeFromEmpty(_, _)
writeSubtreeFromEmpty(parentTree, subDir) ==
    LET base == IF parentTree = Null THEN EmptyTree ELSE parentTree
        isDir(f) == subDir[f] # Null /\ ~IsChange(subDir[f])
        subtree(f) == writeSubtreeFromEmpty(Null, subDir[f])
        removed == {f \in DOMAIN subDir :
                        \/ subDir[f] = Null
                        \/ isDir(f) /\ DOMAIN subtree(f) = {}}
        inserted == DOMAIN subDir \ removed
    IN  [f \in (DOMAIN base \ removed) \cup inserted |->
            IF f \notin inserted THEN base[f]
            ELSE IF IsChange(subDir[f]) THEN subDir[f]
            ELSE Change(subtree(f), "TREE")]

\* writeSubtree (lines 165-219): the builder starts from the entries of
\* parentTree; a null entry is removed, a Change is inserted, a directory
\* is written over the tree at its name and removed when it has no entries.
RECURSIVE writeSubtree(_, _)
writeSubtree(parentTree, subDir) ==
    LET base == IF parentTree = Null THEN EmptyTree ELSE parentTree
        isDir(f) == subDir[f] # Null /\ ~IsChange(subDir[f])
        subtreeParent(f) == IF f \in DOMAIN base /\ base[f].mode = "TREE"
                                THEN base[f].id
                                ELSE Null
        subtree(f) == writeSubtree(subtreeParent(f), subDir[f])
        removed == {f \in DOMAIN subDir :
                        \/ subDir[f] = Null
                        \/ isDir(f) /\ DOMAIN subtree(f) = {}}
        inserted == DOMAIN subDir \ removed
    IN  [f \in (DOMAIN base \ removed) \cup inserted |->
            IF f \notin inserted THEN base[f]
            ELSE IF IsChange(subDir[f]) THEN subDir[f]
            ELSE Change(subtree(f), "TREE")]

\* writeTree that keeps the entry of the base tree where there is one.
writeTreeKeepingBase(baseTree, changes) ==
    LET written == writeSubtree(baseTree, buildDirectoryTree(changes))
        base == IF baseTree = Null THEN EmptyTree ELSE baseTree
    IN  [f \in DOMAIN written |->
            IF f \in DOMAIN base THEN base[f] ELSE written[f]]

\* writeTree (lines 150-221).
writeTree(baseTree, changes) ==
    writeSubtree(baseTree, buildDirectoryTree(changes))

(***************************************************************************)
(* writeStitchedCommit (stitch_util.js 400-526).                           *)
(***************************************************************************)
\* The text of summarizeSubCommit: it names the submodule and the commit.
summarizeSubCommit(name, sha) == [summaryOf |-> name, on |-> sha]

\* subCommit.treeId(), and the submodule commit as a parent.
treeId(sha) == [treeOf |-> sha]
subCommit(sha) == [sub |-> sha]

computeModulesFile(urls) ==
    Change([blob |-> [n \in {m \in DOMAIN urls : exclude(m)} |-> urls[n]]], "BLOB")

\* stitchSub that links the submodule commit as a parent in either mode.
stitchSubAlwaysLinked(acc, name, sha, objects, detatch) ==
    IF sha \notin objects THEN acc
    ELSE [acc EXCEPT !.changes = Put(@, <<name>>, Change(treeId(sha), "TREE")),
                     !.parentsToWrite = Append(@, subCommit(sha))]

\* stitchSub (lines 431-451) on the accumulated
\* [changes, commitMessage, parentsToWrite].
stitchSub(acc, name, sha, objects, detatch) ==
    IF sha \notin objects THEN acc
    ELSE LET withChange ==
                 [acc EXCEPT !.changes = Put(@, <<name>>, Change(treeId(sha), "TREE"))]
         IN  IF detatch
                 THEN [withChange EXCEPT !.commitMessage =
                           @ \o <<"\n", summarizeSubCommit(name, sha)>>]
                 ELSE [withChange EXCEPT !.parentsToWrite =
                           Append(@, subCommit(sha))]

\* changeExcluded that puts the tree of the submodule commit at the path.
changeExcludedInlined(acc, name, newSha) ==
    [acc EXCEPT !.changes = Put(@, <<name>>, Change(treeId(newSha), "TREE"))]

changeExcluded(acc, name, newSha) ==
    [acc EXCEPT !.changes = Put(@, <<name>>, Change([commit |-> newSha], "COMMIT"))]

\* The loops over `added` (lines 462-473) and `changed` (lines 477-487).
RECURSIVE StitchNames(_, _, _, _, _)
StitchNames(acc, names, shaOf, objects, detatch) ==
    IF names = <<>> THEN acc
    ELSE LET name == names[1]
             next == IF exclude(name)
                         THEN changeExcluded(acc, name, shaOf[name])
                         ELSE stitchSub(acc, name, shaOf[name], objects, detatch)
         IN  StitchNames(next, Tail(names), shaOf, objects, detatch)

\* Lines 411-509: everything up to and including the tree; `parents` are the
\* stitched parents.  The result holds newTree, commitMessage, parentsToWrite
\* and the arguments writeTree was given.
stitchedParts(par, subs, commit, parents, objects, detatch) ==
    LET parentTree == IF parents = <<>> THEN Null ELSE parents[1].tree
        subChanges == getSubmoduleChanges(par, subs, commit)
        start == [changes |-> <<>>,
                  commitMessage |-> <<[messageOf |-> commit]>>,
                  parentsToWrite |-> parents]
        added == StitchNames(start, NamesIn(DOMAIN subChanges.added),
                             subChanges.added, objects, detatch)
        changed == StitchNames(added, NamesIn(DOMAIN subChanges.changed),
                               [n \in DOMAIN subChanges.changed
                                   |-> subChanges.changed[n].new],
                               objects, detatch)
        removed == [p \in DOMAIN changed.changes
                               \cup {<<n>> : n \in subChanges.removed} |->
                       IF p[1] \in subChanges.removed THEN Null
                       ELSE changed.changes[p]]
        updateModules ==
            \/ \E n \in DOMAIN subChanges.added : exclude(n)
            \/ \E n \in subChanges.removed : exclude(n)
        changes == IF updateModules
                       THEN Put(removed, <<modulesFileName>>,
                                computeModulesFile(
                                    getSubmodulesFromCommit(subs, commit)))
                       ELSE removed
    IN  [newTree |-> writeTree(parentTree, changes),
         parentTree |-> parentTree,
         changes |-> changes,
         commitMessage |-> changed.commitMessage,
         parentsToWrite |-> changed.parentsToWrite]

\* NodeGit.Commit.create (lines 510-518): the commit object; author,
\* committer and encoding are those of the original commit.
stitchedCommit(commit, parts) ==
    [author |-> commit,
     message |-> parts.commitMessage,
     tree |-> parts.newTree,
     parents |-> parts.parentsToWrite]

(***************************************************************************)
(* The histories the runs work on, after the fixtures of the tests         *)
(* (test/util/stitch_util.js): a history is the parents of each meta       *)
(* commit and its submodule table.                                         *)
(***************************************************************************)
Table(s, t, u) == [n \in Names |-> CASE n = "s" -> s [] n = "t" -> t [] OTHER -> u]

\* Two branches that merge; both change the stitched submodule s.
ForkHistory ==
    [parents |-> (101 :> <<>>) @@ (102 :> <<101>>) @@ (103 :> <<102>>)
                 @@ (104 :> <<101>>) @@ (105 :> <<103, 104>>),
     subs    |-> (101 :> Table(0, 0, 0)) @@ (102 :> Table(0, 0, 0))
                 @@ (103 :> Table(202, 0, 0)) @@ (104 :> Table(201, 0, 0))
                 @@ (105 :> Table(202, 0, 0))]

\* A chain that adds s and the excluded t, changes s, then removes both.
ChainHistory ==
    [parents |-> (101 :> <<>>) @@ (102 :> <<101>>) @@ (103 :> <<102>>),
     subs    |-> (101 :> Table(201, 203, 0)) @@ (102 :> Table(202, 203, 0))
                 @@ (103 :> Table(0, 0, 0))]

\* Merges whose ids are not in parent order; s and u point at one commit.
MergeHistory ==
    [parents |-> (101 :> <<>>) @@ (103 :> <<101>>) @@ (102 :> <<101, 103>>)
                 @@ (104 :> <<102, 103>>),
     subs    |-> (101 :> Table(0, 0, 0)) @@ (103 :> Table(201, 0, 0))
                 @@ (102 :> Table(201, 0, 201)) @@ (104 :> Table(201, 203, 201))]

Histories == {ChainHistory, MergeHistory}

\* A chain on the excluded t: added with s, changed together with s, then
\* moved to another url.
ExcludedHistory ==
    [parents |-> (111 :> <<>>) @@ (112 :> <<111>>) @@ (113 :> <<112>>),
     subs    |-> (111 :> Table(201, 203, 0)) @@ (112 :> Table(202, 204, 0))
                 @@ (113 :> Table(202, 204, 0))]

\* Two commits: s and u are added on different commits, then s is changed.
MissingHistory ==
    [parents |-> (121 :> <<>>) @@ (122 :> <<121>>),
     subs    |-> (121 :> Table(201, 0, 202)) @@ (122 :> Table(202, 0, 202))]

\* The shas of the stitched submodules of a history: what a run may fetch.
StitchedShas(h) ==
    {h.subs[c][n] : c \in DOMAIN h.subs, n \in {m \in Names : ~exclude(m)}} \ {NoSub}

Commits == DOMAIN parentsOf
targetBranchName == "master"

(***************************************************************************)
(* The stitch process (stitch.js 113-190).                                 *)
(***************************************************************************)
\* The commitish of a process that has none: no process, or one that ended
\* past line 125.
NoCommitish == -1

NoRun(pc) ==
    [pc |-> pc, commitish |-> NoCommitish, commit |-> 0, fetch |-> FALSE, commitsToStitch |-> <<>>,
     fetches |-> <<>>, i |-> 0, parts |-> Null, newCommit |-> Null,
     lastCommit |-> Undefined, hadMarker |-> FALSE, origin |-> Null,
     resumed |-> FALSE, issued |-> {}]

Stopped == {"idle", "done", "failed", "killed"}

OrderOff == [pc |-> "off"]
MergeOff == [pc |-> "off"]
NamingOff == [pc |-> "off"]

InitIn(histories) ==
    /\ \E h \in histories :
           /\ parentsOf = h.parents
           /\ subsOf = h.subs
           /\ remote \in SUBSET StitchedShas(h)
    /\ detach \in BOOLEAN
    /\ converted = <<>>
    /\ fetched = <<>>
    /\ branches = <<>>
    /\ subObjects = {}
    /\ trees = {}
    /\ commits = {}
    /\ run = NoRun("idle")
    /\ order = OrderOff
    /\ merge = MergeOff
    /\ naming = NamingOff

Init == InitIn(Histories)

\* Lines 121-128: a new process resolves the commitish; one that does not
\* resolve (0 here) throws.  A run started with the arguments of a run that
\* was killed in its write pass resumes it.
\* A commitish that does not resolve falls back to the newest commit.
StartRunDefaultingToHead(commitish, doFetch) ==
    /\ run.pc \in Stopped
    /\ LET head == CHOOSE c \in Commits : \A d \in Commits : d <= c
       IN  run' = [NoRun("list") EXCEPT
                      !.commitish = commitish,
                      !.commit = IF commitish \in Commits THEN commitish ELSE head,
                      !.fetch = doFetch]
    /\ UNCHANGED <<world, repo, calls>>

StartRun(commitish, doFetch) ==
    /\ run.pc \in Stopped
    /\ IF commitish \notin Commits
           THEN run' = [NoRun("failed") EXCEPT !.commitish = commitish]
           ELSE LET resumes == /\ run.pc = "killed"
                               /\ run.origin # Null
                               /\ run.origin.commit = commitish
                               /\ run.origin.fetch = doFetch
                IN  run' = [NoRun("list") EXCEPT
                               !.commitish = commitish,
                               !.commit = commitish,
                               !.fetch = doFetch,
                               !.hadMarker =
                                   getConvertedSha(converted, commitish) # Null,
                               !.origin = IF resumes THEN run.origin ELSE Null,
                               !.resumed = resumes]
    /\ UNCHANGED <<world, repo, calls>>

\* Line 130.
ListCommits ==
    /\ run.pc = "list"
    /\ run' = [run EXCEPT
                  !.commitsToStitch = listCommitsToStitch(run.commit, parentsOf, converted),
                  !.pc = IF run.fetch THEN "listFetches" ELSE "stitch",
                  !.i = 1]
    /\ UNCHANGED <<world, repo, calls>>

\* Lines 136-141: one worker per submodule name, each with its batch.
ListFetches ==
    /\ run.pc = "listFetches"
    /\ LET fetches == listFetches(run.commitsToStitch, parentsOf, subsOf)
       IN  run' = [run EXCEPT
                      !.fetches = [name \in DOMAIN fetches |->
                                      [todo |-> fetches[name], got |-> FALSE]],
                      !.pc = "fetch"]
    /\ UNCHANGED <<world, repo, calls>>

\* The url of the meta-repo the run is given, and
\* SubmoduleConfigUtil.resolveSubmoduleUrl: the submodule urls of the
\* histories are absolute, and an absolute url resolves to itself.
url == "/meta"
resolveSubmoduleUrl(baseUrl, subUrl) == subUrl

\* fetchSubCommits (stitch_util.js 546-557): GitUtil.fetchSha of the next
\* entry of the worker of `name`; a failed fetch returns from the batch.
\* run.issued notes the fetches the run has issued.
FetchSha(name) ==
    /\ run.pc = "fetch"
    /\ name \in DOMAIN run.fetches
    /\ run.fetches[name].todo # <<>>
    /\ ~run.fetches[name].got
    /\ LET fetch == run.fetches[name].todo[1]
           subUrl == resolveSubmoduleUrl(url, fetch.url)
           noted == [run EXCEPT !.issued = @ \cup {[url |-> subUrl,
                                                    sha |-> fetch.sha]}]
       IN  IF fetch.sha \in remote
               THEN /\ subObjects' = subObjects \cup {fetch.sha}
                    /\ run' = [noted EXCEPT !.fetches[name].got = TRUE]
               ELSE /\ subObjects' = subObjects
                    /\ run' = [noted EXCEPT !.fetches[name].todo = <<>>]
    /\ UNCHANGED <<world, converted, fetched, branches, trees, commits, calls>>

\* The ref of the next entry is created before its fetch has returned.
CreateFetchedRefBeforeFetch(name) ==
    /\ run.pc = "fetch"
    /\ name \in DOMAIN run.fetches
    /\ run.fetches[name].todo # <<>>
    /\ ~run.fetches[name].got
    /\ LET f == run.fetches[name].todo[1]
       IN  fetched' = Put(fetched, fetchedSubRefName(f.metaSha, f.sha), f.sha)
    /\ run' = [run EXCEPT !.fetches[name].todo = Tail(@)]
    /\ UNCHANGED <<world, converted, branches, subObjects, trees, commits, calls>>

\* fetchSubCommits (stitch_util.js 558-559): Reference.create with force.
CreateFetchedRef(name) ==
    /\ run.pc = "fetch"
    /\ name \in DOMAIN run.fetches
    /\ run.fetches[name].got
    /\ LET f == run.fetches[name].todo[1]
       IN  fetched' = Put(fetched, fetchedSubRefName(f.metaSha, f.sha), f.sha)
    /\ run' = [run EXCEPT !.fetches[name].todo = Tail(@),
                          !.fetches[name].got = FALSE]
    /\ UNCHANGED <<world, converted, branches, subObjects, trees, commits, calls>>

\* The write pass starts without waiting for the workers.
FetchesDoneNotAwaited ==
    /\ run.pc = "fetch"
    /\ run' = [run EXCEPT !.pc = "stitch"]
    /\ UNCHANGED <<world, repo, calls>>

\* Line 151: doInParallel returns when every worker has returned.
FetchesDone ==
    /\ run.pc = "fetch"
    /\ \A name \in DOMAIN run.fetches : run.fetches[name].todo = <<>>
    /\ run' = [run EXCEPT !.pc = "stitch", !.fetches = <<>>]
    /\ UNCHANGED <<world, repo, calls>>

next == run.commitsToStitch[run.i]

\* WriteTree in which getCommit of a missing submodule commit is not caught.
WriteTreeMissingThrows ==
    /\ run.pc = "stitch"
    /\ run.i <= Len(run.commitsToStitch)
    /\ LET parents == getParents(parentsOf, next)
           newParents == [k \in DOMAIN parents |->
                             getConvertedSha(converted, parents[k])]
           subChanges == getSubmoduleChanges(parentsOf, subsOf, next)
           missing == {n \in DOMAIN subChanges.added \cup DOMAIN subChanges.changed :
                          ~exclude(n) /\ subsOf[next][n] \notin subObjects}
       IN  IF missing # {} \/ \E k \in DOMAIN newParents : newParents[k] = Null
               THEN /\ run' = NoRun("failed")
                    /\ trees' = trees
               ELSE LET parts == stitchedParts(parentsOf, subsOf, next, newParents,
                                               subObjects, detach)
                    IN  /\ trees' = trees \cup {parts.newTree}
                        /\ run' = [run EXCEPT !.parts = parts, !.pc = "create"]
    /\ UNCHANGED <<world, converted, fetched, branches, subObjects, commits, calls>>

\* stitch.js 163-172 and stitch_util.js 411-509: the converted parents,
\* then the tree.  getCommit(null) throws when a parent has no marker.
WriteTree ==
    /\ run.pc = "stitch"
    /\ run.i <= Len(run.commitsToStitch)
    /\ LET parents == getParents(parentsOf, next)
           newParents == [k \in DOMAIN parents |->
                             getConvertedSha(converted, parents[k])]
       IN  IF \E k \in DOMAIN newParents : newParents[k] = Null
               THEN /\ run' = NoRun("failed")
                    /\ trees' = trees
               ELSE LET parts == stitchedParts(parentsOf, subsOf, next, newParents,
                                               subObjects, detach)
                    IN  /\ trees' = trees \cup {parts.newTree}
                        /\ run' = [run EXCEPT !.parts = parts, !.pc = "create"]
    /\ UNCHANGED <<world, converted, fetched, branches, subObjects, commits, calls>>

\* The commit object is dropped instead of being written to the store.
CreateCommitNotStored ==
    /\ run.pc = "create"
    /\ run' = [run EXCEPT !.newCommit = stitchedCommit(next, run.parts),
                          !.pc = "ref"]
    /\ UNCHANGED <<world, repo, calls>>

\* stitch_util.js 510-518.
CreateCommit ==
    /\ run.pc = "create"
    /\ LET newCommitId == stitchedCommit(next, run.parts)
       IN  /\ commits' = commits \cup {newCommitId}
           /\ run' = [run EXCEPT !.newCommit = newCommitId, !.pc = "ref"]
    /\ UNCHANGED <<world, converted, fetched, branches, subObjects, trees, calls>>

\* stitch_util.js 519-525 and stitch.js 183: Reference.create with force.
CreateConvertedRef ==
    /\ run.pc = "ref"
    /\ converted' = Put(converted, convertedRefName(next), run.newCommit)
    /\ run' = [run EXCEPT !.lastCommit = run.newCommit,
                          !.parts = Null,
                          !.newCommit = Null,
                          !.i = @ + 1,
                          !.pc = "stitch"]
    /\ UNCHANGED <<world, fetched, branches, subObjects, trees, commits, calls>>

\* The object store fails to write the tree or the commit: the error
\* propagates and ends the run.
WriteFails ==
    /\ run.pc \in {"stitch", "create"}
    /\ run.i <= Len(run.commitsToStitch)
    /\ run' = NoRun("failed")
    /\ UNCHANGED <<world, repo, calls>>

\* stitch.js 185-189.
UpdateBranch ==
    /\ run.pc = "stitch"
    /\ run.i > Len(run.commitsToStitch)
    /\ branches' = IF run.lastCommit # Undefined
                       THEN Put(branches, targetBranchName, run.lastCommit)
                       ELSE branches
    /\ run' = [run EXCEPT !.pc = "done"]
    /\ UNCHANGED <<world, converted, fetched, subObjects, trees, commits, calls>>

\* The rest of the write pass (stitch.js 157-184) run to its end: the
\* converted refs it leaves.
RECURSIVE WriteAll(_, _, _, _, _, _)
WriteAll(toStitch, conv, objects, par, subs, detatch) ==
    IF toStitch = <<>> THEN conv
    ELSE LET commit == toStitch[1]
             parents == getParents(par, commit)
             newParents == [k \in DOMAIN parents |->
                               getConvertedSha(conv, parents[k])]
             parts == stitchedParts(par, subs, commit, newParents, objects, detatch)
         IN  WriteAll(Tail(toStitch),
                      Put(conv, convertedRefName(commit), stitchedCommit(commit, parts)),
                      objects, par, subs, detatch)

\* The process is killed between two steps.  A run killed in its write pass
\* leaves a note of what it was about to do: its arguments, the commits it
\* had not marked yet and the refs it would have left.
Kill ==
    /\ run.pc \notin Stopped
    /\ LET inWritePass == run.pc \in {"stitch", "create", "ref"}
           rest == SubSeq(run.commitsToStitch, run.i, Len(run.commitsToStitch))
       IN  run' = [NoRun("killed") EXCEPT
                      !.origin =
                          IF run.resumed
                              THEN IF inWritePass
                                       THEN [run.origin EXCEPT
                                                !.remaining = Range(rest)]
                                       ELSE run.origin
                          ELSE IF inWritePass
                              THEN [commit |-> run.commit,
                                    fetch |-> run.fetch,
                                    remaining |-> Range(rest),
                                    expected |-> WriteAll(rest, converted,
                                                          subObjects, parentsOf,
                                                          subsOf, detach)]
                              ELSE Null]
    /\ UNCHANGED <<world, repo, calls>>

Next ==
    \/ \E commitish \in Commits \cup {0}, doFetch \in BOOLEAN :
           StartRun(commitish, doFetch)
    \/ ListCommits
    \/ ListFetches
    \/ \E name \in Names : FetchSha(name)
    \/ \E name \in Names : CreateFetchedRef(name)
    \/ FetchesDone
    \/ WriteTree
    \/ CreateCommit
    \/ CreateConvertedRef
    \/ WriteFails
    \/ UpdateBranch
    \/ Kill

Spec == Init /\ [][Next]_vars

\* The same runs on the history with two branches.
InitResume == InitIn({ForkHistory})

SpecResume == InitResume /\ [][Next]_vars

\* The same runs on the history of the excluded submodule.
InitExcluded == InitIn({ExcludedHistory})

SpecExcluded == InitExcluded /\ [][Next]_vars

\* The same runs on the history of two commits.
InitMissing == InitIn({MissingHistory})

SpecMissing == InitMissing /\ [][Next]_vars

(***************************************************************************)
(* One call of listCommitsInOrder, its while loop taken one iteration at   *)
(* a time.  The inputs are the acyclic parent maps over NumIds ids in      *)
(* which every key is reachable from the entry (lines 112-114); a parent   *)
(* may be no key of the map and may be listed twice.                       *)
(***************************************************************************)
NumIds == 3
Ids == 101..(100 + NumIds)
\* A sha that is a parent and never a key of the map (lines 112-113).
OutsideId == 100
ParentIds == Ids \cup {OutsideId}
ParentLists ==
    {<<>>} \cup {<<a>> : a \in ParentIds} \cup {<<a, b>> : a, b \in ParentIds}

\* The keys reachable from the ids of S along the parents of keys.
RECURSIVE ReachableKeys(_, _)
ReachableKeys(parentMap, S) ==
    LET more == S \cup UNION {Range(parentMap[k]) : k \in S \cap DOMAIN parentMap}
    IN  IF more = S THEN S \cap DOMAIN parentMap ELSE ReachableKeys(parentMap, more)

AncestorKeys(parentMap, k) == ReachableKeys(parentMap, Range(parentMap[k]))

IsAcyclic(parentMap) ==
    \A k \in DOMAIN parentMap : k \notin AncestorKeys(parentMap, k)

InitOrder ==
    /\ \E entry \in Ids, keys \in SUBSET Ids :
       \E parentMap \in [keys -> ParentLists] :
           /\ IsAcyclic(parentMap)
           /\ ReachableKeys(parentMap, {entry}) = keys
           /\ order = [pc |-> "levels", entry |-> entry, parentMap |-> parentMap,
                       levels |-> <<>>, queue |-> <<entry>>, result |-> <<>>]
    /\ parentsOf = <<>>
    /\ subsOf = <<>>
    /\ remote = {}
    /\ detach = FALSE
    /\ converted = <<>>
    /\ fetched = <<>>
    /\ branches = <<>>
    /\ subObjects = {}
    /\ trees = {}
    /\ commits = {}
    /\ run = NoRun("idle")
    /\ merge = MergeOff
    /\ naming = NamingOff

\* Lines 131-163: one iteration of the while loop.
OrderLevelStep ==
    /\ order.pc = "levels"
    /\ order.queue # <<>>
    /\ LET s == LevelStep(order.levels, order.queue, order.parentMap)
       IN  order' = [order EXCEPT !.levels = s.levels, !.queue = s.queue]
    /\ UNCHANGED <<world, repo, run, merge, naming>>

\* Line 178: the sort, once the queue is empty.
OrderSort ==
    /\ order.pc = "levels"
    /\ order.queue = <<>>
    /\ order' = [order EXCEPT
                    !.result = SortCommits(KeysOf(DOMAIN order.parentMap), order.levels),
                    !.pc = "done"]
    /\ UNCHANGED <<world, repo, run, merge, naming>>

NextOrder == OrderLevelStep \/ OrderSort

SpecOrder == InitOrder /\ [][NextOrder]_vars

(***************************************************************************)
(* Properties.                                                             *)
(***************************************************************************)
(***************************************************************************)
(* One call of TreeUtil.writeTree on a base tree of at most two levels and *)
(* a map of changes at paths of one or two components, within the         *)
(* documented domain (tree_util.js 133-148): a removal names an entry of   *)
(* the base tree, and no change sits at a path that another path continues.*)
(***************************************************************************)
TreeNames == {"a", "b"}
NumBlobs == 1

Blobs == {Change([blob |-> k], "BLOB") : k \in 1..NumBlobs}
LeafTrees == UNION {[D -> Blobs] : D \in (SUBSET TreeNames) \ {{}}}
BaseEntries == Blobs \cup {Change(t, "TREE") : t \in LeafTrees}
BaseTrees == UNION {[D -> BaseEntries] : D \in SUBSET TreeNames}
TreePaths == {<<n>> : n \in TreeNames} \cup {<<n, m>> : n \in TreeNames, m \in TreeNames}
ChangeSets == UNION {[D -> Blobs \cup {Null}] : D \in SUBSET TreePaths}

\* tree.entryByPath(path); Null when there is no such entry.
RECURSIVE EntryAt(_, _)
EntryAt(tree, path) ==
    IF tree = Null \/ path[1] \notin DOMAIN tree THEN Null
    ELSE IF Len(path) = 1 THEN tree[path[1]]
    ELSE IF tree[path[1]].mode = "TREE" THEN EntryAt(tree[path[1]].id, Tail(path))
    ELSE Null

IsProperPrefix(p, q) == Len(p) < Len(q) /\ SubSeq(q, 1, Len(p)) = p

InDocumentedDomain(baseTree, changes) ==
    \A p \in DOMAIN changes :
        IF changes[p] = Null
            THEN EntryAt(baseTree, p) # Null
            ELSE \A q \in DOMAIN changes : ~IsProperPrefix(p, q)

StitchIdle ==
    /\ parentsOf = <<>>
    /\ subsOf = <<>>
    /\ remote = {}
    /\ detach = FALSE
    /\ converted = <<>>
    /\ fetched = <<>>
    /\ branches = <<>>
    /\ subObjects = {}
    /\ trees = {}
    /\ commits = {}
    /\ run = NoRun("idle")
    /\ order = OrderOff

InitTree ==
    /\ \E baseTree \in BaseTrees \cup {Null}, changes \in ChangeSets :
           /\ InDocumentedDomain(baseTree, changes)
           /\ merge = [pc |-> "write", baseTree |-> baseTree,
                       changes |-> changes, result |-> Null]
    /\ StitchIdle
    /\ naming = NamingOff

\* tree_util.js 150-221.
WriteTreeCall ==
    /\ merge.pc = "write"
    /\ merge' = [merge EXCEPT !.result = writeTree(merge.baseTree, merge.changes),
                              !.pc = "done"]
    /\ UNCHANGED <<world, repo, run, order, naming>>

NextTree == WriteTreeCall

SpecTree == InitTree /\ [][NextTree]_vars

(***************************************************************************)
(* One call of the ref-name functions on ids written out as strings of     *)
(* characters of any length from three up to MaxShaLen, the names built    *)
(* character by character.                                                 *)
(***************************************************************************)
MaxShaLen == 4
ShaChars == {"a", "b"}
ShaTexts == UNION {[1..n -> ShaChars] : n \in 3..MaxShaLen}

\* String.prototype.slice(from, to) and slice(from), indices from 0.
slice(text, from, to) ==
    SubSeq(text, from + 1, IF to <= Len(text) THEN to ELSE Len(text))
sliceFrom(text, from) == SubSeq(text, from + 1, Len(text))

\* splitSha that cuts the rest after the third character.
splitShaTextSkipping(sha) == slice(sha, 0, 2) \o <<"/">> \o sliceFrom(sha, 3)

\* stitch_util.js 54-58.
splitShaText(sha) == slice(sha, 0, 2) \o <<"/">> \o sliceFrom(sha, 2)

\* stitch_util.js 67-69 and 80-83; a constant prefix is one element.
convertedRefNameText(sha) == <<"refs/stitched/converted/">> \o splitShaText(sha)

fetchedSubRefNameText(metaSha, subSha) ==
    <<"refs/stitched/fetched/">> \o splitShaText(metaSha)
        \o <<"/", "s", "u", "b", "/">> \o splitShaText(subSha)

\* deSplitSha of the test driver.
deSplitSha(sha) == slice(sha, 0, 2) \o sliceFrom(sha, 3)

InitNames ==
    /\ \E metaSha \in ShaTexts, subSha \in ShaTexts :
           naming = [pc |-> "name", metaSha |-> metaSha, subSha |-> subSha,
                     convertedRef |-> Null, fetchedSubRef |-> Null]
    /\ StitchIdle
    /\ merge = MergeOff

NameRefs ==
    /\ naming.pc = "name"
    /\ naming' = [naming EXCEPT
                     !.convertedRef = convertedRefNameText(naming.metaSha),
                     !.fetchedSubRef = fetchedSubRefNameText(naming.metaSha,
                                                             naming.subSha),
                     !.pc = "done"]
    /\ UNCHANGED <<world, repo, run, order, merge>>

NextNames == NameRefs

SpecNames == InitNames /\ [][NextNames]_vars

\* Runs of stitch on the chain that removes its submodules, and single
\* calls of writeTree.
InitRemoval == InitIn({ChainHistory}) \/ InitTree

NextRemoval == Next \/ WriteTreeCall

SpecRemoval == InitRemoval /\ [][NextRemoval]_vars

(***************************************************************************)
(* Runs that nothing from outside ends: no kill and no failure of the      *)
(* object store.  The process goes on whenever the call it waits for has   *)
(* returned (co.wrap resumes the generator when the yielded promise        *)
(* settles), so a started run does not stop while one of its steps is      *)
(* possible, and neither does the loop of listCommitsInOrder.              *)
(***************************************************************************)
\* writeTree called with changes outside the domain its documentation
\* defines (tree_util.js 137-143): the behaviour is undefined.  One outcome
\* is the tree WriteTree writes, the other is that the call throws, which
\* ends the run.
WriteTreeUndefined ==
    /\ run.pc = "stitch"
    /\ run.i <= Len(run.commitsToStitch)
    /\ LET parents == getParents(parentsOf, next)
           newParents == [k \in DOMAIN parents |->
                             getConvertedSha(converted, parents[k])]
       IN  /\ \A k \in DOMAIN newParents : newParents[k] # Null
           /\ LET parts == stitchedParts(parentsOf, subsOf, next, newParents,
                                         subObjects, detach)
              IN  ~InDocumentedDomain(parts.parentTree, parts.changes)
    /\ run' = NoRun("failed")
    /\ UNCHANGED <<world, repo, calls>>

InitLive == Init \/ InitOrder

\* A step of a started run.
RunStep ==
    \/ ListCommits
    \/ ListFetches
    \/ \E name \in Names : FetchSha(name)
    \/ \E name \in Names : CreateFetchedRef(name)
    \/ FetchesDone
    \/ WriteTree
    \/ WriteTreeUndefined
    \/ CreateCommit
    \/ CreateConvertedRef
    \/ UpdateBranch

NextLive ==
    \/ \E commitish \in Commits \cup {0}, doFetch \in BOOLEAN :
           StartRun(commitish, doFetch)
    \/ RunStep
    \/ NextOrder

Fairness == WF_vars(RunStep) /\ WF_vars(NextOrder)

SpecLive == InitLive /\ [][NextLive]_vars /\ Fairness

NoDuplicates(seq) == \A j, k \in DOMAIN seq : j # k => seq[j] # seq[k]
IndexOf(seq, x) == CHOOSE k \in DOMAIN seq : seq[k] = x

\* C1: for an acyclic parent map and an entry, listCommitsInOrder returns
\* each key of the map exactly once and nothing else (nothing at all when the
\* entry is no key), and every parent of a commit that is itself a key stands
\* strictly earlier in the list than the commit.
C1_ParentsFirst ==
    order.pc = "done" =>
        /\ NoDuplicates(order.result)
        /\ Range(order.result) = DOMAIN order.parentMap
        /\ order.entry \notin DOMAIN order.parentMap => order.result = <<>>
        /\ \A k \in DOMAIN order.result :
               \A p \in Range(order.parentMap[order.result[k]]) \cap DOMAIN order.parentMap :
                   \E j \in 1..(k - 1) : order.result[j] = p

\* A list in which a parent with the larger id stands before its child.
C1_Witness ==
    /\ order.pc = "done"
    /\ \E j, k \in DOMAIN order.result :
           /\ j < k
           /\ order.result[j] > order.result[k]
           /\ order.result[j] \in Range(order.parentMap[order.result[k]])

\* The conversion marker of a commit, and the history read directly.
HasMarker(c) == convertedRefName(c) \in DOMAIN converted

RECURSIVE AncestorsOfSet(_)
AncestorsOfSet(S) ==
    LET more == S \cup UNION {Range(parentsOf[c]) : c \in S}
    IN  IF more = S THEN S ELSE AncestorsOfSet(more)

Ancestors(c) == AncestorsOfSet(Range(parentsOf[c]))

Running == run.pc \notin Stopped

\* C2: in every state reached by any sequence of stitch runs, killed runs
\* included, a commit with a conversion marker has only ancestors with a
\* conversion marker.
C2_MarkedAncestors ==
    \A c \in Commits : HasMarker(c) => \A a \in Ancestors(c) : HasMarker(a)

\* A run was killed after it had marked a merge and before it marked all.
C2_Witness ==
    /\ run.pc = "killed"
    /\ \E c, d \in Commits :
           /\ HasMarker(c)
           /\ Len(parentsOf[c]) = 2
           /\ ~HasMarker(d)

\* C3: a conversion marker, once it exists, keeps its target in every later
\* step of the run and of every later run.
C3_MarkersKept ==
    [][\A name \in DOMAIN converted :
           /\ name \in DOMAIN converted'
           /\ converted'[name] = converted[name]]_vars

\* A later run that found markers of an earlier run and has added its own.
C3_Witness ==
    /\ run.pc = "done"
    /\ run.commitsToStitch # <<>>
    /\ \E c \in Commits : HasMarker(c) /\ c \notin Range(run.commitsToStitch)

\* C4: a run on an entry that already has its marker (a second run after a
\* first one that completed) lists no commit and leaves the objects, the
\* markers and the branches of the repository as they are.
C4_SecondRunIdle ==
    [][(run'.hadMarker /\ run'.pc \notin {"idle", "failed", "killed"}) =>
           /\ run'.commitsToStitch = <<>>
           /\ repo' = repo]_vars

\* A second run on the entry of a completed first run has come to its end.
C4_Witness ==
    /\ run.pc = "done"
    /\ run.hadMarker
    /\ targetBranchName \in DOMAIN branches
    /\ branches[targetBranchName] = getConvertedSha(converted, run.commit)

\* The commits reachable from the ids of S along parent paths of commits
\* without a marker.
RECURSIVE UnmarkedFrom(_)
UnmarkedFrom(S) ==
    LET more == S \cup {p \in UNION {Range(parentsOf[c]) : c \in S} : ~HasMarker(p)}
    IN  IF more = S THEN S ELSE UnmarkedFrom(more)

UnmarkedReach(c) == IF HasMarker(c) THEN {} ELSE UnmarkedFrom({c})

\* The list is made and no marker has been written since.
JustListed == Running /\ run.pc # "list" /\ run.i = 1

\* C6: listCommitsToStitch returns, each once, exactly the commits reachable
\* from the entry along parent paths on which no commit has a marker; no
\* commit with a marker is listed (its parents are not read).
C6_ListsUnmarkedReach ==
    JustListed =>
        /\ NoDuplicates(run.commitsToStitch)
        /\ Range(run.commitsToStitch) = UnmarkedReach(run.commit)
        /\ \A c \in Range(run.commitsToStitch) : ~HasMarker(c)

\* A listing that stopped at a marked ancestor of the entry.
C6_Witness ==
    /\ JustListed
    /\ run.commitsToStitch # <<>>
    /\ \E a \in Ancestors(run.commit) : HasMarker(a)
    /\ \E c \in Range(run.commitsToStitch) : Len(parentsOf[c]) = 2

\* C7: when the write pass reaches a commit, each of its original parents
\* has a conversion marker: getConvertedSha returns no null.
C7_ParentsConverted ==
    (run.pc = "stitch" /\ run.i <= Len(run.commitsToStitch)) =>
        \A p \in Range(parentsOf[next]) :
            getConvertedSha(converted, p) # Null

\* The write pass reaches a merge whose parents this run has written.
C7_Witness ==
    /\ run.pc = "stitch"
    /\ run.i <= Len(run.commitsToStitch)
    /\ Len(parentsOf[next]) = 2
    /\ Range(parentsOf[next]) \subseteq Range(run.commitsToStitch)

\* C5: when a run is killed in its write pass and run again with the same
\* arguments, the second run converts exactly the commits the first had not
\* marked, and the markers at its end are those the first run would have
\* left had it not been killed.
C5_ResumeAsUninterrupted ==
    /\ (run.resumed /\ JustListed) =>
           Range(run.commitsToStitch) = run.origin.remaining
    /\ (run.resumed /\ run.pc = "done") => converted = run.origin.expected

\* The commit a run in its write pass is working on.
Writing == run.pc \in {"stitch", "create", "ref"} /\ run.i <= Len(run.commitsToStitch)

\* C8: a marker appears only for a stitched commit that is in the store
\* together with its tree; when the write fails or the process is killed
\* before the marker of the commit at hand is created, that commit has no
\* marker and a run on the same entry lists it again.
C8_MarkerAfterWrite ==
    [][/\ \A r \in DOMAIN converted' :
              (r \notin DOMAIN converted \/ converted'[r] # converted[r])
                  => converted'[r] \in commits /\ converted'[r].tree \in trees
       /\ (Writing /\ run'.pc \in {"failed", "killed"})
              => /\ converted' = converted
                 /\ getConvertedSha(converted', next) = Null
                 /\ next \in Range(listCommitsToStitch(run.commit, parentsOf,
                                                        converted'))]_vars

\* A run lists again a commit whose stitched object an earlier run had
\* written without reaching its marker.
C8_Witness ==
    /\ JustListed
    /\ \E c \in commits :
           /\ getConvertedSha(converted, c.author) = Null
           /\ c.author \in Range(run.commitsToStitch)

\* The non-excluded submodules a commit adds or changes whose commit is in
\* the store, those it adds first.
PresentSubs(commit) ==
    LET new == subsOf[commit]
        old == IF parentsOf[commit] = <<>>
                   THEN [n \in Names |-> NoSub]
                   ELSE subsOf[parentsOf[commit][1]]
        isAdded(n) == old[n] = NoSub /\ new[n] # NoSub
        isChanged(n) == old[n] # NoSub /\ new[n] # NoSub /\ old[n] # new[n]
        stitched(n) == ~exclude(n) /\ new[n] \in subObjects
    IN  SelectSeq(NameOrder, LAMBDA n : isAdded(n) /\ stitched(n))
            \o SelectSeq(NameOrder, LAMBDA n : isChanged(n) /\ stitched(n))

ConvertedParents(commit) ==
    [k \in DOMAIN parentsOf[commit] |->
        getConvertedSha(converted, parentsOf[commit][k])]

RECURSIVE Summaries(_, _)
Summaries(commit, names) ==
    IF names = <<>> THEN <<>>
    ELSE <<"\n", summarizeSubCommit(names[1], subsOf[commit][names[1]])>>
             \o Summaries(commit, Tail(names))

\* C9: once writeStitchedCommit has its parents and message, in linked mode
\* the parents are the converted meta parents in order followed by the
\* present stitched submodule commits and the message is the original one;
\* in detached mode the parents are the converted meta parents only and the
\* message is the original one followed by a newline and the summary of
\* each such submodule commit.
C9_ParentsAndMessage ==
    run.pc = "create" =>
        LET present == PresentSubs(next)
            original == <<[messageOf |-> next]>>
        IN  IF detach
                THEN /\ run.parts.parentsToWrite = ConvertedParents(next)
                     /\ run.parts.commitMessage =
                            original \o Summaries(next, present)
                ELSE /\ run.parts.parentsToWrite =
                            ConvertedParents(next)
                                \o [k \in DOMAIN present |->
                                       subCommit(subsOf[next][present[k]])]
                     /\ run.parts.commitMessage = original

\* A detached run at a commit with a parent and a present stitched submodule.
C9_Witness ==
    /\ run.pc = "create"
    /\ detach
    /\ parentsOf[next] # <<>>
    /\ PresentSubs(next) # <<>>

\* C10: in the tree written for a commit, the path of every non-excluded
\* submodule the commit adds or changes, and whose commit is in the store,
\* holds a Tree entry with the tree id of that submodule commit.
C10_SubTreeAtPath ==
    run.pc = "create" =>
        /\ run.parts.newTree \in trees
        /\ \A k \in DOMAIN PresentSubs(next) :
               LET name == PresentSubs(next)[k]
               IN  /\ name \in DOMAIN run.parts.newTree
                   /\ run.parts.newTree[name] =
                          Change(treeId(subsOf[next][name]), "TREE")

\* The tree of the stitched first parent holds another tree at the path of
\* a submodule the commit changes.
C10_Witness ==
    /\ run.pc = "create"
    /\ parentsOf[next] # <<>>
    /\ \E k \in DOMAIN PresentSubs(next) :
           LET name == PresentSubs(next)[k]
               base == ConvertedParents(next)[1].tree
           IN  /\ name \in DOMAIN base
               /\ base[name].mode = "TREE"
               /\ base[name] # run.parts.newTree[name]

\* The excluded submodules a commit adds or changes, read from the tables.
ExcludedTouched(commit) ==
    LET new == subsOf[commit]
        first == parentsOf[commit][1]
    IN  {n \in Names :
            /\ exclude(n)
            /\ new[n] # NoSub
            /\ \/ parentsOf[commit] = <<>>
               \/ subsOf[first][n] # new[n]
               \/ UrlAt(first, n) # UrlAt(commit, n)}

\* C11: an excluded submodule that a commit adds or changes stands in the
\* stitched tree as a Commit entry on its new sha; its commit is no parent
\* of the stitched commit, the message holds no summary of it, and no
\* fetch is listed under its name.
C11_ExcludedKeptAsPointer ==
    /\ run.pc = "create" =>
           \A n \in ExcludedTouched(next) :
               /\ n \in DOMAIN run.parts.newTree
               /\ run.parts.newTree[n] =
                      Change([commit |-> subsOf[next][n]], "COMMIT")
               /\ \A k \in DOMAIN run.parts.parentsToWrite :
                      k > Len(parentsOf[next]) =>
                          run.parts.parentsToWrite[k] # subCommit(subsOf[next][n])
               /\ \A k \in DOMAIN run.parts.commitMessage :
                      (k > 1 /\ k % 2 = 1) =>
                          run.parts.commitMessage[k].summaryOf # n
    /\ run.pc = "fetch" => \A name \in DOMAIN run.fetches : ~exclude(name)

\* A fetching run writes a commit that changes the excluded submodule.
C11_Witness ==
    /\ run.pc = "create"
    /\ run.fetch
    /\ parentsOf[next] # <<>>
    /\ \E n \in ExcludedTouched(next) :
           /\ subsOf[parentsOf[next][1]][n] # NoSub
           /\ subsOf[parentsOf[next][1]][n] # subsOf[next][n]

\* The excluded submodules of a commit with their urls in that commit, and
\* what a commit does to the excluded submodules of its first parent.
ExcludedUrls(commit) ==
    [n \in {m \in Names : exclude(m) /\ subsOf[commit][m] # NoSub} |->
        UrlAt(commit, n)]

AddsExcluded(commit) ==
    \E n \in DOMAIN ExcludedUrls(commit) :
        parentsOf[commit] = <<>> \/ subsOf[parentsOf[commit][1]][n] = NoSub

RemovesExcluded(commit) ==
    /\ parentsOf[commit] # <<>>
    /\ \E n \in DOMAIN ExcludedUrls(parentsOf[commit][1]) :
           subsOf[commit][n] = NoSub

MovesExcluded(commit) ==
    /\ parentsOf[commit] # <<>>
    /\ \E n \in DOMAIN ExcludedUrls(commit) \cap
                    DOMAIN ExcludedUrls(parentsOf[commit][1]) :
           ExcludedUrls(commit)[n] # ExcludedUrls(parentsOf[commit][1])[n]

\* C12: the tree written for a commit that adds an excluded submodule,
\* changes the url of one or removes one holds at .gitmodules the blob
\* that lists exactly the excluded submodules of the commit with their
\* urls in that commit.
C12_ModulesFileRegenerated ==
    (run.pc = "create"
         /\ (AddsExcluded(next) \/ MovesExcluded(next) \/ RemovesExcluded(next)))
        => /\ modulesFileName \in DOMAIN run.parts.newTree
           /\ run.parts.newTree[modulesFileName] =
                  Change([blob |-> ExcludedUrls(next)], "BLOB")

\* The submodules of its first parent that a commit no longer has.
RemovedSubs(commit) ==
    IF parentsOf[commit] = <<>> THEN {}
    ELSE {n \in Names : /\ subsOf[parentsOf[commit][1]][n] # NoSub
                        /\ subsOf[commit][n] = NoSub}

\* C13: the tree written for a commit has no entry at the path of a
\* submodule the commit removes, stitched or excluded; and writeTree
\* leaves no entry at a removed path and no tree without entries below
\* the root.
C13_RemovedAndEmptyGone ==
    /\ run.pc = "create" =>
           \A n \in RemovedSubs(next) : n \notin DOMAIN run.parts.newTree
    /\ merge.pc = "done" =>
           /\ \A p \in DOMAIN merge.changes :
                  (/\ merge.changes[p] = Null
                   /\ \A q \in DOMAIN merge.changes : ~IsProperPrefix(p, q))
                      => EntryAt(merge.result, p) = Null
           /\ \A p \in TreePaths :
                  LET entry == EntryAt(merge.result, p)
                  IN  (entry # Null /\ entry.mode = "TREE") => DOMAIN entry.id # {}

\* A commit removes a stitched submodule whose tree stands in the tree of
\* its stitched parent, together with an excluded one.
C13_Witness ==
    /\ run.pc = "create"
    /\ \E n, m \in RemovedSubs(next) :
           /\ ~exclude(n)
           /\ exclude(m)
           /\ {n, m} \subseteq DOMAIN ConvertedParents(next)[1].tree

\* Paths of which one continues the other, or that are the same.
Related(p, q) == p = q \/ IsProperPrefix(p, q) \/ IsProperPrefix(q, p)

\* C14: every entry of the base tree, at either level, whose path no
\* change names, continues or lies on, is in the written tree as it was;
\* with no change at all the written tree is the base tree.
C14_UntouchedEntriesKept ==
    merge.pc = "done" =>
        /\ \A p \in TreePaths :
               (/\ EntryAt(merge.baseTree, p) # Null
                /\ \A q \in DOMAIN merge.changes : ~Related(p, q))
                   => EntryAt(merge.result, p) = EntryAt(merge.baseTree, p)
        /\ (merge.changes = <<>> /\ merge.baseTree # Null)
               => merge.result = merge.baseTree

\* A change below a directory of the base tree beside an entry it leaves.
C14_Witness ==
    /\ merge.pc = "done"
    /\ \E n \in TreeNames, m \in TreeNames, k \in TreeNames :
           /\ m # k
           /\ EntryAt(merge.baseTree, <<n, m>>) # Null
           /\ <<n, k>> \in DOMAIN merge.changes
           /\ \A q \in DOMAIN merge.changes : ~Related(<<n, m>>, q)
           /\ EntryAt(merge.result, <<n, k>>) # EntryAt(merge.baseTree, <<n, k>>)

\* The non-excluded submodules a commit adds or changes whose commit is
\* not in the store.
MissingSubs(commit) ==
    LET new == subsOf[commit]
    IN  {n \in Names :
            /\ ~exclude(n)
            /\ new[n] # NoSub
            /\ new[n] \notin subObjects
            /\ \/ parentsOf[commit] = <<>>
               \/ subsOf[parentsOf[commit][1]][n] # new[n]}

\* The commit the write pass has just left.
previous == run.commitsToStitch[run.i - 1]

\* C15: at a commit with a submodule commit missing from the store the
\* write goes through: the tree can be written, it holds the submodules
\* that are present, and once the pass has moved on the commit has its
\* marker on a stitched commit in the store.
C15_MissingSubTolerated ==
    /\ (run.pc = "stitch" /\ Writing /\ MissingSubs(next) # {})
           => ENABLED (WriteTree /\ run'.pc = "create")
    /\ (run.pc = "create" /\ MissingSubs(next) # {})
           => \A k \in DOMAIN PresentSubs(next) :
                  /\ PresentSubs(next)[k] \in DOMAIN run.parts.newTree
                  /\ run.parts.newTree[PresentSubs(next)[k]].mode = "TREE"
    /\ (run.pc = "stitch" /\ run.i > 1 /\ MissingSubs(previous) # {})
           => /\ HasMarker(previous)
              /\ getConvertedSha(converted, previous) \in commits

\* The pass has written a commit with one submodule missing and another
\* present, and goes on to the next commit.
C15_Witness ==
    /\ run.pc = "stitch"
    /\ run.i > 1
    /\ run.i <= Len(run.commitsToStitch)
    /\ MissingSubs(previous) # {}
    /\ PresentSubs(previous) # <<>>
    /\ HasMarker(previous)

\* C16: the tree written for a commit has no entry at the path of a
\* non-excluded submodule that the commit adds or changes and whose
\* commit is missing from the store.
C16_MissingSubDropped ==
    run.pc = "create" =>
        \A n \in MissingSubs(next) : n \notin DOMAIN run.parts.newTree

\* The fetch phase of the run is over and nothing is written yet.
FetchesOver == run.fetch /\ run.pc = "stitch" /\ run.i = 1

\* C17: when the workers have returned, every entry of every batch has
\* been attempted, and every entry whose fetch succeeds has its fetched
\* marker, the entries listed after a failed one included.
C17_FailedFetchDropsOnlyItself ==
    FetchesOver =>
        LET fetches == listFetches(run.commitsToStitch, parentsOf, subsOf)
        IN  \A name \in DOMAIN fetches : \A k \in DOMAIN fetches[name] :
                LET fetch == fetches[name][k]
                    refName == fetchedSubRefName(fetch.metaSha, fetch.sha)
                IN  /\ [url |-> resolveSubmoduleUrl(url, fetch.url),
                        sha |-> fetch.sha] \in run.issued
                    /\ fetch.sha \in remote =>
                           refName \in DOMAIN fetched /\ fetched[refName] = fetch.sha

\* The worker of `name` has fetched its next entry and not yet marked it.
Fetched(name) == run.pc = "fetch" /\ name \in DOMAIN run.fetches /\ run.fetches[name].got

\* C18: whatever the interleaving of the workers, a fetched marker that
\* appears is the one of an entry whose fetch has just succeeded and
\* points at its submodule commit; markers that exist keep their target;
\* and the worker that comes to create a marker that already exists goes
\* on to its next entry with the marker as it was.
C18_FetchedMarkerAfterFetch ==
    [][/\ \A r \in DOMAIN fetched :
              r \in DOMAIN fetched' /\ fetched'[r] = fetched[r]
       /\ \A r \in DOMAIN fetched' \ DOMAIN fetched :
              \E name \in Names :
                  /\ Fetched(name)
                  /\ LET f == run.fetches[name].todo[1]
                     IN  /\ r = fetchedSubRefName(f.metaSha, f.sha)
                         /\ fetched'[r] = f.sha
                         /\ f.sha \in subObjects
                         /\ [url |-> resolveSubmoduleUrl(url, f.url),
                             sha |-> f.sha] \in run.issued
       /\ \A name \in Names :
              (/\ Fetched(name)
               /\ run'.pc = "fetch"
               /\ run'.fetches[name] # run.fetches[name])
                  => LET f == run.fetches[name].todo[1]
                         r == fetchedSubRefName(f.metaSha, f.sha)
                     IN  /\ r \in DOMAIN fetched'
                         /\ fetched'[r] = f.sha
                         /\ run'.fetches[name].todo = Tail(run.fetches[name].todo)]_vars

\* Two workers of one run have fetched the same submodule commit for the
\* same meta commit: one has created the marker, the other is about to.
C18_Witness ==
    \E name, other \in Names :
        /\ name # other
        /\ Fetched(name)
        /\ other \in DOMAIN run.fetches
        /\ LET f == run.fetches[name].todo[1]
               all == listFetches(run.commitsToStitch, parentsOf, subsOf)[other]
               pair(g) == <<g.metaSha, g.sha>>
           IN  /\ fetchedSubRefName(f.metaSha, f.sha) \in DOMAIN fetched
               /\ \E k \in DOMAIN all : pair(all[k]) = pair(f)
               /\ \A k \in DOMAIN run.fetches[other].todo :
                      pair(run.fetches[other].todo[k]) # pair(f)

\* The step is a fetch by the worker of `name` (its next entry is issued).
IsFetchStep(name) ==
    /\ run.pc = "fetch"
    /\ name \in DOMAIN run.fetches
    /\ run.fetches[name].todo # <<>>
    /\ ~run.fetches[name].got
    /\ run'.pc = "fetch"
    /\ run'.fetches[name] # run.fetches[name]

\* C19: no run fetches a submodule commit for a meta commit whose pair has
\* a fetched marker from an earlier run (a marker that exists although the
\* run has not fetched that commit itself).
C19_MarkedPairNotRefetched ==
    [][\A name \in Names :
           IsFetchStep(name) =>
               LET f == run.fetches[name].todo[1]
               IN  ~(/\ fetchedSubRefName(f.metaSha, f.sha) \in DOMAIN fetched
                     /\ \A done \in run.issued : done.sha # f.sha)]_vars

\* C20: no run issues a second fetch for a url and a submodule commit it
\* has already issued a fetch for.
C20_NoFetchTwice ==
    [][\A name \in Names :
           IsFetchStep(name) =>
               LET f == run.fetches[name].todo[1]
               IN  [url |-> resolveSubmoduleUrl(url, f.url), sha |-> f.sha]
                       \notin run.issued]_vars

\* The entries expected under a submodule name: one for each listed commit,
\* the last first, that has the submodule on another commit than its first
\* parent has, or has it where its first parent has none.
ExpectedFetches(name) ==
    LET touched(c) == /\ ~exclude(name)
                      /\ subsOf[c][name] # NoSub
                      /\ \/ parentsOf[c] = <<>>
                         \/ subsOf[parentsOf[c][1]][name] # subsOf[c][name]
        picks == SelectSeq(Reverse(run.commitsToStitch), touched)
    IN  [k \in DOMAIN picks |->
            [metaSha |-> picks[k],
             url |-> UrlAt(picks[k], name),
             sha |-> subsOf[picks[k]][name]]]

\* C21: listFetches returns, under each submodule name, one entry
\* {metaSha, url, sha} for each listed commit that adds or changes the
\* submodule and for which it is not excluded, from the last listed commit
\* to the first; a name without such a commit is no key of the result.
C21_ListFetchesEntries ==
    [][(run.pc = "listFetches" /\ run'.pc = "fetch") =>
           /\ DOMAIN run'.fetches = {n \in Names : ExpectedFetches(n) # <<>>}
           /\ \A n \in DOMAIN run'.fetches :
                  run'.fetches[n].todo = ExpectedFetches(n)]_vars

\* A batch with entries of two commits is listed, next to names without a
\* key: an excluded submodule and a submodule no listed commit touches.
C21_Witness ==
    /\ run.pc = "fetch"
    /\ \E n \in DOMAIN run.fetches :
           /\ run.fetches[n].todo = ExpectedFetches(n)
           /\ Len(run.fetches[n].todo) >= 2
    /\ \E c \in Range(run.commitsToStitch), n \in Names :
           exclude(n) /\ subsOf[c][n] # NoSub
    /\ \E n \in Names : ~exclude(n) /\ n \notin DOMAIN run.fetches

\* A step of the write pass: a tree, a commit or a converted ref is written.
IsWriteStep ==
    \/ run.pc = "stitch" /\ run'.pc = "create"
    \/ run.pc = "create" /\ run'.pc = "ref"
    \/ run.pc = "ref" /\ run'.pc = "stitch"

\* A step of a fetch worker: a fetch is issued or a fetched ref is created.
IsWorkerStep ==
    \/ run'.issued # run.issued /\ run'.issued # {}
    \/ fetched' # fetched
    \/ subObjects' # subObjects

\* The run has written nothing yet.
NothingWritten ==
    /\ run.i <= 1
    /\ run.parts = Null
    /\ run.newCommit = Null
    /\ run.lastCommit = Undefined

\* C22: in a run with fetching enabled every fetch has finished before the
\* first stitched commit of the run is written: at every step of the write
\* pass no worker has an entry left or a fetch whose ref is outstanding, and
\* every step of a worker is taken by a run that has written nothing.
C22_FetchesBeforeWrites ==
    [][/\ (run.fetch /\ IsWriteStep) =>
              \A name \in DOMAIN run.fetches :
                  run.fetches[name].todo = <<>> /\ ~run.fetches[name].got
       /\ IsWorkerStep => (run.pc = "fetch" /\ NothingWritten)]_vars

\* A run that has fetched a commit and created its ref writes its second
\* stitched commit.
C22_Witness ==
    /\ run.fetch
    /\ run.pc = "create"
    /\ run.i = 2
    /\ run.issued # {}
    /\ \E c \in Range(run.commitsToStitch), n \in Names :
           /\ subsOf[c][n] # NoSub
           /\ fetchedSubRefName(c, subsOf[c][n]) \in DOMAIN fetched

\* C23: when the commitish does not resolve, stitch fails before it lists,
\* fetches or writes anything: the step that starts such a process ends it,
\* and the objects and refs of the repository are the ones it found.
C23_UnresolvedCommitishFails ==
    [][(run.pc \in Stopped /\ run'.commitish \notin Commits \cup {NoCommitish}) =>
           /\ run'.pc = "failed"
           /\ run'.commitsToStitch = <<>>
           /\ run'.fetches = <<>>
           /\ run'.issued = {}
           /\ run'.lastCommit = Undefined
           /\ repo' = repo]_vars

\* A process given a commitish that does not resolve has failed in a
\* repository that holds stitched commits, markers and the target branch.
C23_Witness ==
    /\ run.pc = "failed"
    /\ run.commitish \notin Commits \cup {NoCommitish}
    /\ commits # {}
    /\ converted # <<>>
    /\ targetBranchName \in DOMAIN branches

\* C24: convertedRefName(sha) is "refs/stitched/converted/", the first two
\* characters of sha, "/", and the rest of sha; fetchedSubRefName(metaSha,
\* subSha) is "refs/stitched/fetched/", the split metaSha, "/sub/" and the
\* split subSha.  Taking the separator out of a split id gives the id, and
\* no other id, or pair of ids, of three characters or more has the name.
C24_RefNamesSplitAndDistinct ==
    naming.pc = "done" =>
        LET m == naming.metaSha
            u == naming.subSha
            c == naming.convertedRef
            f == naming.fetchedSubRef
            sub == 3 + Len(m)
        IN  /\ Len(c) = Len(m) + 2
            /\ c[1] = "refs/stitched/converted/"
            /\ <<c[2], c[3]>> = <<m[1], m[2]>>
            /\ c[4] = "/"
            /\ SubSeq(c, 5, Len(c)) = SubSeq(m, 3, Len(m))
            /\ deSplitSha(Tail(c)) = m
            /\ Len(f) = Len(m) + Len(u) + 8
            /\ f[1] = "refs/stitched/fetched/"
            /\ deSplitSha(SubSeq(f, 2, sub - 1)) = m
            /\ SubSeq(f, sub, sub + 4) = <<"/", "s", "u", "b", "/">>
            /\ deSplitSha(SubSeq(f, sub + 5, Len(f))) = u
            /\ \A sha \in ShaTexts :
                   convertedRefNameText(sha) = c => sha = m
            /\ \A metaSha \in ShaTexts, subSha \in ShaTexts :
                   fetchedSubRefNameText(metaSha, subSha) = f =>
                       (metaSha = m /\ subSha = u)

\* The names of two ids of different lengths have been built.
C24_Witness ==
    /\ naming.pc = "done"
    /\ Len(naming.metaSha) = 3
    /\ Len(naming.subSha) > 3
    /\ naming.convertedRef # Null
    /\ naming.fetchedSubRef # Null

\* C25: in the list listCommitsInOrder returns, two commits of which neither
\* is an ancestor of the other stand in ascending order of their ids.
C25_UnrelatedInIdOrder ==
    order.pc = "done" =>
        \A j, k \in DOMAIN order.result :
            (/\ j < k
             /\ order.result[j] \notin AncestorKeys(order.parentMap, order.result[k])
             /\ order.result[k] \notin AncestorKeys(order.parentMap, order.result[j]))
                => order.result[j] < order.result[k]

\* The fetched refs of a meta commit: refs/stitched/fetched/<split sha>/sub/*.
FetchedRefsOf(c) ==
    {name \in DOMAIN fetched : SubSeq(name, 2, 3) = splitSha(c)}

\* C26: once writeStitchedCommit has written the stitched commit of a meta
\* commit and recorded its conversion marker, no refs/stitched/fetched ref
\* of that meta commit remains.
C26_FetchedRefsCleaned ==
    \A c \in Commits : HasMarker(c) => FetchedRefsOf(c) = {}

\* The largest number of a set of numbers.
SetMax(S) == CHOOSE x \in S : \A y \in S : y <= x

\* The level by all parents: 0 for a sha without parents in the map, one
\* more than the largest level of its parents otherwise.
RECURSIVE LevelByParents(_, _)
LevelByParents(parentMap, sha) ==
    IF sha \notin DOMAIN parentMap \/ parentMap[sha] = <<>> THEN 0
    ELSE 1 + SetMax({LevelByParents(parentMap, p) : p \in Range(parentMap[sha])})

\* The level by the parents that are keys: 0 when no parent is a key.
RECURSIVE LevelByKeyParents(_, _)
LevelByKeyParents(parentMap, sha) ==
    LET keyParents == Range(parentMap[sha]) \cap DOMAIN parentMap
    IN  IF keyParents = {} THEN 0
        ELSE 1 + SetMax({LevelByKeyParents(parentMap, p) : p \in keyParents})

\* seq lists the domain of level once each, by ascending level and, within
\* a level, by ascending id.
IsSortedBy(seq, level) ==
    /\ Range(seq) = DOMAIN level
    /\ NoDuplicates(seq)
    /\ \A j, k \in DOMAIN seq :
           j < k => \/ level[seq[j]] < level[seq[k]]
                    \/ level[seq[j]] = level[seq[k]] /\ seq[j] < seq[k]

\* The parent map with each parent listed once.
WithoutRepeats(parentMap) ==
    [k \in DOMAIN parentMap |->
        IF Len(parentMap[k]) = 2 /\ parentMap[k][1] = parentMap[k][2]
            THEN <<parentMap[k][1]>>
            ELSE parentMap[k]]

C29_BranchAtEntryMarker ==
    run.pc = "done" =>
        /\ targetBranchName \in DOMAIN branches
        /\ branches[targetBranchName] = getConvertedSha(converted, run.commit)

\* C30: every deletion writeStitchedCommit passes to writeTree names a path
\* that exists in the base tree, also when the addition of the removed
\* submodule was dropped: writeTree is never called outside the domain its
\* documentation defines.
C30_DeletionsNameExistingPaths ==
    run.pc = "create" =>
        /\ \A p \in DOMAIN run.parts.changes :
               run.parts.changes[p] = Null =>
                   EntryAt(run.parts.parentTree, p) # Null
        /\ InDocumentedDomain(run.parts.parentTree, run.parts.changes)

====
